---------------------------- MODULE Spec2Model ----------------------------
(***************************************************************************)
(* A model of pyDevPulse.                                                  *)
(*                                                                         *)
(*   Dispatcher  : src/src/devpulse/websocket.py, send_event,              *)
(*                 connect_websocket, process_event_queue                  *)
(*   Broadcaster : src/examples/websocket_server.py, register, unregister, *)
(*                 broadcast_event, handler                                *)
(*   Trace context : src/src/traceflow/core.py, trace_id_var,              *)
(*                 generate_trace_id, get_trace_id, set_trace_id           *)
(*   Logging     : src/src/devpulse/logging.py, DevPulseHandler.emit,      *)
(*                 setup_logging; src/src/devpulse/database.py, save_event *)
(*   Store queries : src/src/devpulse/database.py, get_events;             *)
(*                 src/src/devpulse/web_ui.py, get_trace_timeline          *)
(*   Middleware  : src/src/devpulse/integrations/fastapi.py,               *)
(*                 DevPulseMiddleware.dispatch                             *)
(*                                                                         *)
(* asyncio runs one coroutine at a time and switches only where a          *)
(* coroutine really suspends.  An action of this model is therefore the    *)
(* code one task runs between two suspensions.  The suspension points are  *)
(* `await _event_queue.get()` on an empty queue, `await                    *)
(* websockets.connect(url)`, `await asyncio.sleep(1)` and, in the          *)
(* broadcaster, `await websocket.send(...)`.  `await register(...)`,       *)
(* `await unregister(...)` and `await connect_websocket()` with no URL     *)
(* hold no suspension and run inside the caller's step.                    *)
(***************************************************************************)
EXTENDS Integers, Sequences, FiniteSets, Bags, TLC

\* ------------------------------------------------------------------ bounds
\* Number of send_event calls of a run; records are numbered 1..MaxSends in
\* the order send_event receives them.
MaxSends == 3
\* Number of process_event_queue tasks that may exist at once.
MaxLoops == 4
\* Number of connections websockets.connect may hand out in a run.
MaxConns == 4
\* Number of connect_websocket calls of the application in flight at once.
MaxPendingConnects == 1

\* asyncio.Queue() is built without a maxsize: the default, 0.
maxsize == 0

\* The values init may be given as websocket_url; "" stands for every falsy
\* value, None (the _config default) included.
Urls == {"", "ws://server"}

VARIABLES
    websocket_url,      \* _config["websocket_url"]
    websocket_client,   \* _websocket_client: 0 is None, n > 0 the n-th connection
    connected,          \* _connected
    client_open,        \* whether the connection _websocket_client names is open
    event_queue,        \* _event_queue, oldest record first
    n_get,              \* process_event_queue tasks at `await _event_queue.get()`
    else_conn,          \* records held by tasks inside line 57's connect_websocket
    n_exc_conn,         \* tasks inside line 68's connect_websocket
    n_sleep,            \* tasks inside line 71's asyncio.sleep(1)
    n_app_conn,         \* connect_websocket calls of the application in flight
    n_sent,             \* number of send_event calls so far
    send_log,           \* what the last send_event call caught and logged
    send_raised,        \* whether a send_event call raised to its caller
    transport,          \* what the transport received: <<record, connection>>, in order
    dropped,            \* <<record, why>>: dequeued records the loop gave up on
    queued_at_failure   \* records in the queue when a send raised ConnectionClosed

dvars == <<websocket_url, websocket_client, connected, client_open, event_queue,
           n_get, else_conn, n_exc_conn, n_sleep, n_app_conn, n_sent, send_log,
           send_raised, transport, dropped, queued_at_failure>>

\* The broadcaster of examples/websocket_server.py.
VARIABLES
    clients,        \* clients: trace id -> set of registered sinks
    hpc,            \* each connection's handler: "new", "open", "bcast", "done"
    hpath,          \* the path the connection asked for, <<>> before it arrives
    htrace,         \* handler's local trace_id
    joined_after,   \* the broadcast_event calls that had ended when handler registered
    alive,          \* whether the connection is open, so that a send to it succeeds
    close_code,     \* the code handler closed the connection with, 0 when it did not
    hexc,           \* the exception that left handler
    bc,             \* the broadcast_event call a handler is suspended in
    n_bcast,        \* number of broadcast_event calls so far
    received,       \* bag of <<sink, traceId, event>>: the sends that reached a sink
    last_done       \* summary of the broadcast_event call that ended last

bvars == <<clients, hpc, hpath, htrace, joined_after, alive, close_code, hexc, bc, n_bcast, received, last_done>>

\* The trace context of src/src/traceflow/core.py.
VARIABLES
    created,        \* the logical units (threads, asyncio tasks) that have been started
    ctx,            \* trace_id_var in each unit's context: [id, by], by the unit whose
                    \* set_trace_id installed it, 0 when nothing was installed
    inherited,      \* what a unit's context held when the unit was started
    installed,      \* what the last set_trace_id of a unit returned
    n_gen,          \* number of generate_trace_id calls so far
    last_call       \* the get_trace_id or set_trace_id call that returned last

cvars == <<created, ctx, inherited, installed, n_gen, last_call>>

\* The logging handler of src/src/devpulse/logging.py and the store of
\* src/src/devpulse/database.py.
VARIABLES
    n_handlers,         \* DevPulseHandlers on the root logger
    enable_db_logging,  \* _config["enable_db_logging"]
    store,              \* the events table, oldest row first: [ev, trace]
    last_log            \* summary of the log record that was handled last

lvars == <<n_handlers, enable_db_logging, store, last_log>>

\* The queries of src/src/devpulse/database.py and the timeline endpoint of
\* src/src/devpulse/web_ui.py.
VARIABLES
    table,          \* the events table the web UI reads, oldest row first:
                    \* [trace, payload], payload the event save_event was given
    answer          \* what the last get_trace_timeline request was answered

qvars == <<table, answer>>

\* The middleware of src/src/devpulse/integrations/fastapi.py.
VARIABLES
    req             \* the request each unit handles: where dispatch stands, the
                    \* request's X-Trace-ID header, dispatch's local trace_id, and
                    \* the response the client gets

mvars == <<req>>

\* The task wrapper of src/src/devpulse/integrations/huey.py.
VARIABLES
    run             \* the task execution of each unit: where execute_with_tracing
                    \* stands, the trace_id keyword it was called with, its local
                    \* trace_id, the event types its hooks logged, in order, how
                    \* the task body ended and what the caller got

hvars == <<run>>

vars == <<dvars, bvars, cvars, lvars, qvars, mvars, hvars>>

\* ------------------------------------------------------------ asyncio.Queue
\* Queue.full(): a maxsize of 0 or less is an unlimited queue.
full(q) == IF maxsize <= 0 THEN FALSE ELSE Len(q) >= maxsize

\* Queue.put_nowait(item): raises QueueFull on a full queue, else appends.
put_nowait(q, item) ==
    IF full(q) THEN [queue |-> q, exc |-> "QueueFull"]
    ELSE [queue |-> Append(q, item), exc |-> "none"]

\* A queue that hands out its newest record first (asyncio.LifoQueue): the
\* mutation of get_nowait that the enqueue-order property must detect.
get_nowait_lifo(q) == [item |-> q[Len(q)], queue |-> SubSeq(q, 1, Len(q) - 1)]

\* Queue.get() on a non-empty queue: the oldest record.
get_nowait(q) == [item |-> Head(q), queue |-> Tail(q)]

\* asyncio.create_task(arg), arg being put_nowait's return value, None: with no
\* running loop get_running_loop raises RuntimeError, and with one Task(None)
\* raises TypeError.
create_task_exc(in_loop) == IF in_loop THEN "TypeError" ELSE "RuntimeError"

\* ---------------------------------------------------------------- send_event
\* The exception that leaves send_event: its except clauses catch QueueFull
\* and every other Exception.
send_event_uncaught(exc) == "none"

\* --------------------------------------------------- logging feedback
\* send_event reports what it caught with logger.warning or logger.error on
\* the logger "devpulse.websocket".  Once setup_logging has put a
\* DevPulseHandler on the root logger that record comes back to emit, and
\* when the calling context has a trace id emit calls send_event again.
\* What ends the chain depends on the interpreter's logging module: one with
\* the re-entrancy guard (CPython 3.13.4 and later) drops a record logged on
\* a logger that is handling one; one without it goes on until the
\* interpreter's recursion limit, where the logging call raises
\* RecursionError.
\* Nested logging calls after which the recursion limit is reached; stands
\* for sys.getrecursionlimit() over the frames of one round.
RecursionDepth == 2

\* save_event, lines 63-102, with the session factory in place and a commit
\* that succeeds: one row is added.  The stored trace_id is
\* event.get("traceId", ""): nothing is checked.
save_event_row(rows, ev, trace_id) == Append(rows, [ev |-> ev, trace |-> trace_id])

RECURSIVE logger_log(_, _, _), callHandlers(_, _, _), emit(_, _), send_event_body(_, _)

\* logger.error / logger.warning / logger.info on logger `name`, at a level
\* the handlers accept.  st is [queue, n, log, store, raised, built, stderr,
\* direct], env is [in_loop, trace, guard, busy, depth, record]; record is
\* the logger of the record being handled.
logger_log(st, env, name) ==
    IF n_handlers = 0 THEN [st |-> st, exc |-> "none"]
    ELSE IF env.guard
    THEN IF name \in env.busy THEN [st |-> st, exc |-> "none"]
         ELSE [st |-> callHandlers(st, [env EXCEPT !.busy = @ \cup {name}, !.record = name],
                               n_handlers),
               exc |-> "none"]
    ELSE IF env.depth >= RecursionDepth THEN [st |-> st, exc |-> "RecursionError"]
         ELSE [st |-> callHandlers(st, [env EXCEPT !.depth = @ + 1, !.record = name],
                               n_handlers),
               exc |-> "none"]

\* Logger.callHandlers: the record goes to each of the k handlers in turn.
callHandlers(st, env, k) ==
    IF k = 0 THEN st ELSE callHandlers(emit(st, env), env, k - 1)

\* DevPulseHandler.emit, logging.py lines 25-84.  direct counts the
\* send_event calls that emit makes for a record of the application itself.
emit(st, env) ==
    IF env.trace = "" THEN st
    ELSE LET ev == st.n + 1
             r == send_event_body(
                      [st EXCEPT !.built = @ \cup {ev},
                                 !.direct = IF env.record = "app" THEN @ + 1 ELSE @],
                      env)
         IN IF r.exc # "none" THEN [r.st EXCEPT !.stderr = @ + 1]
            ELSE IF enable_db_logging
                 THEN [r.st EXCEPT !.store = save_event_row(@, ev, env.trace)]
                 ELSE r.st

\* send_event, lines 74-89.  The record is put on the queue while the
\* argument of create_task is evaluated; create_task then raises, which
\* `except Exception` logs.
send_event_body(st, env) ==
    LET put == put_nowait(st.queue, st.n + 1)
        exc == IF put.exc # "none" THEN put.exc ELSE create_task_exc(env.in_loop)
        lg == logger_log([st EXCEPT !.queue = put.queue, !.n = @ + 1, !.log = exc],
                         env, "devpulse.websocket")
        out == IF lg.exc # "none" THEN lg.exc ELSE send_event_uncaught(exc)
    IN [st |-> [lg.st EXCEPT !.raised = @ \/ out # "none"], exc |-> out]

\* The state the chain starts from.
chain_start ==
    [queue |-> event_queue, n |-> n_sent, log |-> send_log, store |-> store,
     raised |-> FALSE, built |-> {}, stderr |-> 0, direct |-> 0]

call_env(in_loop, trace_id, guard) ==
    [in_loop |-> in_loop, trace |-> trace_id, guard |-> guard, busy |-> {}, depth |-> 0,
     record |-> ""]

\* The application calls send_event, from an event loop or not, in a context
\* that has the trace id `trace_id` ("" when it has none).
send_event(in_loop, trace_id, guard) ==
    /\ LET r == send_event_body(chain_start, call_env(in_loop, trace_id, guard)).st
       IN /\ r.n <= MaxSends
          /\ event_queue' = r.queue
          /\ n_sent' = r.n
          /\ send_log' = r.log
          /\ send_raised' = (send_raised \/ r.raised)
          /\ store' = r.store
    /\ UNCHANGED <<websocket_url, websocket_client, connected, client_open, n_get,
                   else_conn, n_exc_conn, n_sleep, n_app_conn, transport, dropped,
                   queued_at_failure>>
    /\ UNCHANGED <<n_handlers, enable_db_logging, last_log>>
    /\ UNCHANGED <<bvars, cvars, qvars, mvars, hvars>>

\* ---------------------------------------------------------------------- init
\* Number of init calls of a run.
MaxInits == 2

\* init, core.py lines 24-49, stores the configuration and calls
\* setup_logging, which puts one more DevPulseHandler on the root logger; it
\* starts no connection and no task.  init is called at start-up, in a
\* context without a trace id, so emit skips the records init itself logs.
init(url, db) ==
    /\ n_handlers < MaxInits
    /\ websocket_url' = url
    /\ enable_db_logging' = db
    /\ n_handlers' = n_handlers + 1
    /\ UNCHANGED <<websocket_client, connected, client_open, event_queue, n_get,
                   else_conn, n_exc_conn, n_sleep, n_app_conn, n_sent, send_log,
                   send_raised, transport, dropped, queued_at_failure>>
    /\ UNCHANGED <<store, last_log>>
    /\ UNCHANGED <<bvars, cvars, qvars, mvars, hvars>>

\* --------------------------------------------------------- connect_websocket
n_loops == n_get + Cardinality(else_conn) + n_exc_conn + n_sleep

n_connecting == Cardinality(else_conn) + n_exc_conn + n_app_conn

\* websockets.connect can still hand out a connection and a task slot is free
\* for every connect in flight.
can_connect ==
    /\ websocket_client + n_connecting < MaxConns
    /\ n_loops + n_connecting < MaxLoops

\* Lines 32-40 after websockets.connect returned (ok) or raised: the new
\* values of _websocket_client, _connected and client_open, and the number of
\* process_event_queue tasks created (line 37: one per successful connect).
connect_result(ok) ==
    IF ok THEN [client |-> websocket_client + 1, connected |-> TRUE, open |-> TRUE,
                spawned |-> 1]
    ELSE [client |-> websocket_client, connected |-> FALSE, open |-> client_open,
          spawned |-> 0]

\* The application calls connect_websocket: lines 26-32, up to the await.
app_connect ==
    /\ websocket_url # ""
    /\ n_app_conn < MaxPendingConnects
    /\ can_connect
    /\ n_app_conn' = n_app_conn + 1
    /\ UNCHANGED <<websocket_url, websocket_client, connected, client_open, event_queue,
                   n_get, else_conn, n_exc_conn, n_sleep, n_sent, send_log, send_raised,
                   transport, dropped, queued_at_failure>>
    /\ UNCHANGED <<bvars, cvars, lvars, qvars, mvars, hvars>>

\* The application's connect_websocket resumes: lines 32-40.
app_connect_done(ok) ==
    /\ n_app_conn > 0
    /\ LET r == connect_result(ok)
       IN /\ websocket_client' = r.client
          /\ connected' = r.connected
          /\ client_open' = r.open
          /\ n_get' = n_get + r.spawned
    /\ n_app_conn' = n_app_conn - 1
    /\ UNCHANGED <<websocket_url, event_queue, else_conn, n_exc_conn, n_sleep, n_sent,
                   send_log, send_raised, transport, dropped, queued_at_failure>>
    /\ UNCHANGED <<bvars, cvars, lvars, qvars, mvars, hvars>>

\* -------------------------------------------------------- process_event_queue
\* What `await _websocket_client.send(json.dumps(event))` can do: on a closed
\* connection it raises ConnectionClosed; json.dumps or the library may raise
\* another Exception; on an open connection the transport gets the record.
\* The record is handed to the transport when send is called (the library
\* writes the frame before it can suspend), so the dequeue and the hand-over
\* are one step of the task.
AllOutcomes == {"ok", "ConnectionClosed", "Exception"}

send_outcomes == (IF client_open THEN {"ok"} ELSE {"ConnectionClosed"}) \cup {"Exception"}

\* One pass of the loop body for a task at line 50 whose get() returns: lines
\* 50-71, up to the next suspension.  `allowed` is the set of send outcomes
\* the environment may produce.
loop_get(allowed) ==
    /\ n_get > 0
    /\ event_queue # <<>>
    /\ LET got == get_nowait(event_queue)
           event == got.item
       IN /\ event_queue' = got.queue
          /\ IF websocket_client # 0 /\ connected
             THEN \E out \in send_outcomes \cap allowed :
                    CASE out = "ok" ->
                           \* line 54, then line 64 and back to line 50
                           /\ transport' = Append(transport, <<event, websocket_client>>)
                           /\ UNCHANGED <<connected, dropped, queued_at_failure, n_get,
                                          n_exc_conn, n_sleep, else_conn>>
                      [] out = "ConnectionClosed" ->
                           \* lines 65-68: the record is not put back
                           /\ connected' = FALSE
                           /\ dropped' = dropped \cup {<<event, "closed">>}
                           /\ queued_at_failure' =
                                  queued_at_failure \cup {got.queue[i] : i \in 1..Len(got.queue)}
                           /\ IF websocket_url = ""
                              THEN UNCHANGED <<n_get, n_exc_conn>>
                              ELSE /\ can_connect
                                   /\ n_get' = n_get - 1
                                   /\ n_exc_conn' = n_exc_conn + 1
                           /\ UNCHANGED <<transport, n_sleep, else_conn>>
                      [] out = "Exception" ->
                           \* lines 69-71
                           /\ dropped' = dropped \cup {<<event, "error">>}
                           /\ n_get' = n_get - 1
                           /\ n_sleep' = n_sleep + 1
                           /\ UNCHANGED <<transport, connected, queued_at_failure,
                                          n_exc_conn, else_conn>>
             ELSE \* lines 56-61
                  IF websocket_url = ""
                  THEN \* connect_websocket returns at line 29; line 61
                       /\ dropped' = dropped \cup {<<event, "noconn">>}
                       /\ UNCHANGED <<transport, connected, queued_at_failure, n_get,
                                      n_exc_conn, n_sleep, else_conn>>
                  ELSE /\ can_connect
                       /\ n_get' = n_get - 1
                       /\ else_conn' = else_conn \cup {event}
                       /\ UNCHANGED <<transport, connected, dropped, queued_at_failure,
                                      n_exc_conn, n_sleep>>
    /\ UNCHANGED <<websocket_url, websocket_client, client_open, n_app_conn, n_sent,
                   send_log, send_raised>>
    /\ UNCHANGED <<bvars, cvars, lvars, qvars, mvars, hvars>>

\* Line 57's connect_websocket resumes for the task holding `event`: lines
\* 32-40, then lines 58-64 and back to line 50, or lines 65-71.
loop_else_connected(event, ok, allowed) ==
    /\ event \in else_conn
    /\ LET r == connect_result(ok)
       IN /\ websocket_client' = r.client
                /\ IF r.client # 0 /\ r.connected
             THEN \* line 59; the peer may have closed the new connection already
                  \E out \in AllOutcomes \cap allowed :
                    CASE out = "ok" ->
                           /\ transport' = Append(transport, <<event, r.client>>)
                           /\ connected' = r.connected
                           /\ client_open' = r.open
                           /\ else_conn' = else_conn \ {event}
                           /\ n_get' = n_get + r.spawned + 1
                           /\ UNCHANGED <<dropped, queued_at_failure, n_exc_conn, n_sleep>>
                      [] out = "ConnectionClosed" ->
                           /\ connected' = FALSE
                           /\ client_open' = FALSE
                           /\ dropped' = dropped \cup {<<event, "closed">>}
                           /\ queued_at_failure' =
                                  queued_at_failure \cup {event_queue[i] : i \in 1..Len(event_queue)}
                           /\ else_conn' = else_conn \ {event}
                           /\ IF websocket_url = ""
                              THEN /\ n_get' = n_get + r.spawned + 1
                                   /\ UNCHANGED n_exc_conn
                              ELSE /\ can_connect
                                   /\ n_exc_conn' = n_exc_conn + 1
                                   /\ n_get' = n_get + r.spawned
                           /\ UNCHANGED <<transport, n_sleep>>
                      [] out = "Exception" ->
                           /\ connected' = r.connected
                           /\ client_open' = r.open
                           /\ dropped' = dropped \cup {<<event, "error">>}
                           /\ else_conn' = else_conn \ {event}
                           /\ n_sleep' = n_sleep + 1
                           /\ n_get' = n_get + r.spawned
                           /\ UNCHANGED <<transport, queued_at_failure, n_exc_conn>>
             ELSE \* line 61
                  /\ connected' = r.connected
                  /\ client_open' = r.open
                  /\ dropped' = dropped \cup {<<event, "noconn">>}
                  /\ else_conn' = else_conn \ {event}
                  /\ n_get' = n_get + r.spawned + 1
                  /\ UNCHANGED <<transport, queued_at_failure, n_exc_conn, n_sleep>>
    /\ UNCHANGED <<websocket_url, event_queue, n_app_conn, n_sent, send_log, send_raised>>
    /\ UNCHANGED <<bvars, cvars, lvars, qvars, mvars, hvars>>

\* Line 68's connect_websocket resumes: lines 32-40, then back to line 50.
loop_exc_connected(ok) ==
    /\ n_exc_conn > 0
    /\ LET r == connect_result(ok)
       IN /\ websocket_client' = r.client
          /\ connected' = r.connected
          /\ client_open' = r.open
          /\ n_get' = n_get + r.spawned + 1
    /\ n_exc_conn' = n_exc_conn - 1
    /\ UNCHANGED <<websocket_url, event_queue, else_conn, n_sleep, n_app_conn, n_sent,
                   send_log, send_raised, transport, dropped, queued_at_failure>>
    /\ UNCHANGED <<bvars, cvars, lvars, qvars, mvars, hvars>>

\* Line 71's sleep ends: back to line 50.
loop_wake ==
    /\ n_sleep > 0
    /\ n_sleep' = n_sleep - 1
    /\ n_get' = n_get + 1
    /\ UNCHANGED <<websocket_url, websocket_client, connected, client_open, event_queue,
                   else_conn, n_exc_conn, n_app_conn, n_sent, send_log, send_raised,
                   transport, dropped, queued_at_failure>>
    /\ UNCHANGED <<bvars, cvars, lvars, qvars, mvars, hvars>>

\* The peer or the network closes the connection _websocket_client names.
transport_close ==
    /\ websocket_client # 0
    /\ client_open
    /\ client_open' = FALSE
    /\ UNCHANGED <<websocket_url, websocket_client, connected, event_queue, n_get,
                   else_conn, n_exc_conn, n_sleep, n_app_conn, n_sent, send_log,
                   send_raised, transport, dropped, queued_at_failure>>
    /\ UNCHANGED <<bvars, cvars, lvars, qvars, mvars, hvars>>

\* ================================================================ Broadcaster
\* examples/websocket_server.py.  register and unregister hold no await and
\* run inside their caller's step; broadcast_event suspends in each
\* `await websocket.send(event_json)`.
\* Connections the server accepts in a run; each connects once.
MaxSinks == 3
\* broadcast_event calls of a run.
MaxBroadcasts == 2

Sinks == 1..MaxSinks

TraceIds == {"A", "B"}

\* A request path after path.strip("/").split("/").
Paths == {<<"ws", "A">>, <<"ws", "B">>, <<"ws", "", "A">>, <<"ws">>, <<"api", "A">>}

\* A lookup that ignores the traceId and returns every registered sink: the
\* mutation of clients_get that the trace-isolation property must detect.
clients_get_all(cl, trace_id) == UNION {cl[k] : k \in DOMAIN cl}

\* A lookup that falls back on every registered sink: the mutation of
\* clients_get that the no-replay property must detect.
clients_get_everyone(cl, trace_id) ==
    IF trace_id \in DOMAIN cl THEN cl[trace_id] ELSE UNION {cl[k] : k \in DOMAIN cl}

\* clients.get(trace_id, set())
clients_get(cl, trace_id) == IF trace_id \in DOMAIN cl THEN cl[trace_id] ELSE {}

\* A register that drops a sink it finds registered: the mutation of register
\* that the registered-twice property must detect.
register_toggle(cl, websocket, trace_id) ==
    [k \in DOMAIN cl \cup {trace_id} |->
        IF k # trace_id THEN cl[k]
        ELSE IF websocket \in clients_get(cl, trace_id)
             THEN cl[k] \ {websocket} ELSE clients_get(cl, trace_id) \cup {websocket}]

\* register, lines 20-25.
register(cl, websocket, trace_id) ==
    [k \in DOMAIN cl \cup {trace_id} |->
        IF k = trace_id THEN clients_get(cl, trace_id) \cup {websocket} ELSE cl[k]]

\* An unregister without lines 32-33, which keeps the emptied set: the
\* mutation of unregister that the no-empty-entry property must detect.
unregister_keep_entry(cl, websocket, trace_id) ==
    IF trace_id \notin DOMAIN cl THEN [clients |-> cl, exc |-> "none"]
    ELSE IF websocket \notin cl[trace_id] THEN [clients |-> cl, exc |-> "KeyError"]
    ELSE [clients |-> [cl EXCEPT ![trace_id] = @ \ {websocket}], exc |-> "none"]

\* unregister, lines 28-34: set.remove raises KeyError for a sink that is not
\* in the set, before anything is changed.
unregister(cl, websocket, trace_id) ==
    IF trace_id \notin DOMAIN cl THEN [clients |-> cl, exc |-> "none"]
    ELSE IF websocket \notin cl[trace_id] THEN [clients |-> cl, exc |-> "KeyError"]
    ELSE IF cl[trace_id] = {websocket}
         THEN [clients |-> [k \in DOMAIN cl \ {trace_id} |-> cl[k]], exc |-> "none"]
         ELSE [clients |-> [cl EXCEPT ![trace_id] = @ \ {websocket}], exc |-> "none"]

\* Lines 63-64: unregister for each sink of websockets_to_remove, taken in the
\* order `order`; the first exception ends the loop.
RECURSIVE remove_closed(_, _, _)
remove_closed(cl, order, trace_id) ==
    IF order = <<>> THEN [clients |-> cl, exc |-> "none"]
    ELSE LET r == unregister(cl, Head(order), trace_id)
         IN IF r.exc # "none" THEN r ELSE remove_closed(r.clients, Tail(order), trace_id)

\* The orders in which a Python set of sinks can be iterated.
orders(S) ==
    {q \in [1..Cardinality(S) -> S] : \A i, j \in 1..Cardinality(S) : i # j => q[i] # q[j]}

NoBroadcast ==
    [active |-> FALSE, trace |-> "", ev |-> 0, absent |-> TRUE, used |-> 0, snapshot |-> {},
     visited |-> {}, cur |-> 0, delivered |-> {}, failed |-> {}, detached |-> FALSE]

\* `del clients[trace_id]` leaves the broadcasts that iterate the deleted set
\* with an empty set no register reaches again.
detach(b, cl_old, cl_new) ==
    [h \in Sinks |->
        IF b[h].active /\ b[h].trace \in DOMAIN cl_old /\ b[h].trace \notin DOMAIN cl_new
        THEN [b[h] EXCEPT !.detached = TRUE] ELSE b[h]]

\* A handler without lines 75-78, which takes parts[1] as it is: the
\* mutation of path_refused that the empty-identifier property must detect.
path_refused_invalid_only(path) == Len(path) < 2 \/ path[1] # "ws"

\* handler, lines 70-78: whether a request path is refused; `path` is
\* path.strip("/").split("/").
path_refused(path) == Len(path) < 2 \/ path[1] # "ws" \/ path[2] = ""

\* The numbers of the broadcast_event calls that have ended.
ended_broadcasts == (1..n_bcast) \ {bc[h].ev : h \in {x \in Sinks : bc[x].active}}

\* handler, lines 67-81: a connection arrives with `path`.  Connections are
\* alike, so they are numbered in the order they arrive.
ws_connect(s, path) ==
    /\ hpc[s] = "new"
    /\ \A r \in Sinks : r < s => hpc[r] # "new"
    /\ hpath' = [hpath EXCEPT ![s] = path]
    /\ IF path_refused(path)
       THEN /\ close_code' = [close_code EXCEPT ![s] = 1008]
            /\ hpc' = [hpc EXCEPT ![s] = "done"]
            /\ UNCHANGED <<clients, htrace, joined_after, alive>>
       ELSE /\ clients' = register(clients, s, path[2])
            /\ htrace' = [htrace EXCEPT ![s] = path[2]]
            /\ joined_after' = [joined_after EXCEPT ![s] = ended_broadcasts]
            /\ alive' = [alive EXCEPT ![s] = TRUE]
            /\ hpc' = [hpc EXCEPT ![s] = "open"]
            /\ UNCHANGED close_code
    /\ UNCHANGED <<hexc, bc, n_bcast, received, last_done>>
    /\ UNCHANGED <<dvars, cvars, lvars, qvars, mvars, hvars>>

\* The peer or the network closes connection s.
sink_close(s) ==
    /\ hpc[s] \in {"open", "bcast"}
    /\ alive[s]
    /\ alive' = [alive EXCEPT ![s] = FALSE]
    /\ UNCHANGED <<clients, hpc, hpath, htrace, joined_after, close_code, hexc, bc, n_bcast,
                   received, last_done>>
    /\ UNCHANGED <<dvars, cvars, lvars, qvars, mvars, hvars>>

\* handler, lines 103-107: the `async for` of a closed connection ends and the
\* finally clause unregisters it.
handler_exit(s) ==
    /\ hpc[s] = "open"
    /\ ~alive[s]
    /\ LET r == unregister(clients, s, htrace[s])
       IN /\ clients' = r.clients
          /\ hexc' = [hexc EXCEPT ![s] = r.exc]
          /\ bc' = detach(bc, clients, r.clients)
    /\ hpc' = [hpc EXCEPT ![s] = "done"]
    /\ UNCHANGED <<hpath, htrace, joined_after, alive, close_code, n_bcast, received,
                   last_done>>
    /\ UNCHANGED <<dvars, cvars, lvars, qvars, mvars, hvars>>

summary(b, exc, final_set, cl_new) ==
    [n |-> b.ev, trace |-> b.trace, absent |-> b.absent, registry_same |-> cl_new = clients,
     snapshot |-> b.snapshot, visited |-> b.visited,
     delivered |-> b.delivered, failed |-> b.failed, exc |-> exc, final_set |-> final_set,
     after |-> clients_get(cl_new, b.trace),
     others_same |-> \A k \in TraceIds \ {b.trace} :
                        clients_get(cl_new, k) = clients_get(clients, k)]

\* handler, lines 85-95, and broadcast_event, lines 39-55: handler s receives
\* an event with traceId `trace_id` ("" when it has none) and broadcasts it,
\* up to the first send.
ws_message(s, trace_id) ==
    /\ hpc[s] = "open"
    /\ alive[s]
    /\ n_bcast < MaxBroadcasts
    /\ n_bcast' = n_bcast + 1
    /\ IF trace_id = "" \/ clients_get(clients, trace_id) = {}
       THEN \* lines 40-42 and 46-47
            /\ last_done' = summary([NoBroadcast EXCEPT !.ev = n_bcast + 1,
                                                        !.trace = trace_id,
                                                        !.absent = trace_id \notin DOMAIN clients],
                                    "none", {}, clients)
            /\ UNCHANGED <<hpc, bc>>
       ELSE \E first \in clients_get(clients, trace_id) :
            /\ bc' = [bc EXCEPT ![s] =
                        [active |-> TRUE, trace |-> trace_id, ev |-> n_bcast + 1,
                         absent |-> trace_id \notin DOMAIN clients,
                         used |-> Cardinality(clients_get(clients, trace_id)),
                         snapshot |-> clients_get(clients, trace_id), visited |-> {first},
                         cur |-> first, delivered |-> {}, failed |-> {},
                         detached |-> FALSE]]
            /\ hpc' = [hpc EXCEPT ![s] = "bcast"]
            /\ UNCHANGED last_done
    /\ UNCHANGED <<clients, hpath, htrace, joined_after, alive, close_code, hexc, received>>
    /\ UNCHANGED <<dvars, cvars, lvars, qvars, mvars, hvars>>

\* The set iterator's next(): it raises RuntimeError when the set's size is
\* not the size it had when the loop began.
iter_changed_size(b) == b.detached \/ Cardinality(clients_get(clients, b.trace)) # b.used

\* broadcast_event, lines 53-64: the send to b.cur returns or raises, and the
\* loop goes on to its next send, or ends and removes the failed sinks.  The
\* sets of a run hold at most MaxSinks entries ever, too few for the set's
\* table to be rebuilt, so the iterator never returns a sink twice; a sink
\* added during the loop is reached or not, depending on its slot.
bcast_resume(s) ==
    /\ hpc[s] = "bcast"
    /\ LET b0 == bc[s]
           ok == alive[b0.cur]
           b == [b0 EXCEPT !.delivered = IF ok THEN @ \cup {b0.cur} ELSE @,
                           !.failed = IF ok THEN @ ELSE @ \cup {b0.cur}]
           now == clients_get(clients, b.trace)
       IN /\ received' = IF ok THEN received (+) SetToBag({<<b.cur, b.trace, b.ev>>})
                            ELSE received
          /\ IF iter_changed_size(b)
             THEN \* RuntimeError: Set changed size during iteration
                  /\ last_done' = summary(b, "RuntimeError", {}, clients)
                  /\ bc' = [bc EXCEPT ![s] = NoBroadcast]
                  /\ hpc' = [hpc EXCEPT ![s] = "open"]
                  /\ UNCHANGED clients
             ELSE \/ \E c \in now \ b.visited :
                       /\ bc' = [bc EXCEPT ![s] = [b EXCEPT !.cur = c,
                                                            !.visited = @ \cup {c}]]
                       /\ UNCHANGED <<clients, hpc, last_done>>
                  \/ /\ (now \ b.visited) \cap b.snapshot = {}
                     /\ \E order \in orders(b.failed) :
                          LET r == remove_closed(clients, order, b.trace)
                          IN /\ clients' = r.clients
                             /\ last_done' = summary(b, r.exc, now, r.clients)
                             /\ bc' = detach([bc EXCEPT ![s] = NoBroadcast],
                                             clients, r.clients)
                     /\ hpc' = [hpc EXCEPT ![s] = "open"]
    /\ UNCHANGED <<hpath, htrace, joined_after, alive, close_code, hexc, n_bcast>>
    /\ UNCHANGED <<dvars, cvars, lvars, qvars, mvars, hvars>>

\* ============================================================= Trace context
\* src/src/traceflow/core.py.  trace_id_var is a contextvars.ContextVar: every
\* thread has a context of its own, empty when the thread starts, and an
\* asyncio task runs in a copy of the context of the code that created it.
\* Logical units of a run; unit 1 is the main thread.
MaxUnits == 3
\* generate_trace_id calls of a run.
MaxGen == 2

Units == 1..MaxUnits

\* Python's None.
None == "None"

\* The identifiers a caller passes to set_trace_id.
GivenIds == {"A", "B"}

\* uuid.uuid4() never repeats: the n-th generated identifier.
generate_trace_id(n) == <<"uuid-1", "uuid-2", "uuid-3">>[n]

\* The ContextVar's default, line 9.
Unset == [id |-> "", by |-> 0]

\* A trace id kept in a module-level global: the mutation of ContextVar_set
\* that the isolation property must detect.
global_set(c, u, value) == [v \in DOMAIN c |-> value]

\* trace_id_var.set(value) run by unit u.
ContextVar_set(c, u, value) == [c EXCEPT ![u] = value]

\* A unit is started by a running unit: a thread starts with an empty
\* context, a task with a copy of its creator's.  Units are alike, so they
\* are numbered in the order they start.
spawn(u, v, kind) ==
    /\ u \in created
    /\ v \notin created
    /\ \A w \in Units : w < v => w \in created
    /\ created' = created \cup {v}
    /\ LET c == IF kind = "task" THEN ctx[u] ELSE Unset
       IN /\ ctx' = [ctx EXCEPT ![v] = c]
          /\ inherited' = [inherited EXCEPT ![v] = c]
          /\ installed' = [installed EXCEPT ![v] = c.id]
    /\ UNCHANGED <<n_gen, last_call>>
    /\ UNCHANGED <<dvars, bvars, lvars, qvars, mvars, hvars>>

\* A set_trace_id that ignores its argument: the mutation of
\* set_trace_id_value that the installs-the-given-identifier property must
\* detect.
set_trace_id_fresh(trace_id, fresh) == fresh

\* set_trace_id, lines 79-80: the identifier it installs; `fresh` is what
\* generate_trace_id would return.
set_trace_id_value(trace_id, fresh) ==
    IF trace_id = None \/ trace_id = "" THEN fresh ELSE trace_id

\* set_trace_id, lines 70-82, run by unit u: what it does to the context.
set_trace_id_call(u, trace_id) ==
    /\ u \in created
    /\ (trace_id \in {None, ""}) => n_gen < MaxGen
    /\ LET generates == trace_id \in {None, ""}
           fresh == IF generates THEN generate_trace_id(n_gen + 1) ELSE ""
           value == set_trace_id_value(trace_id, fresh)
       IN /\ ctx' = ContextVar_set(ctx, u, [id |-> value, by |-> u])
          /\ installed' = [installed EXCEPT ![u] = value]
          /\ n_gen' = IF generates THEN n_gen + 1 ELSE n_gen
          /\ last_call' = [op |-> "set", unit |-> u, arg |-> trace_id, ret |-> value,
                           by |-> u, before |-> ctx[u], generated |-> n_gen]
    /\ UNCHANGED <<created, inherited>>

\* set_trace_id, lines 70-82, called in unit u.
set_trace_id(u, trace_id) ==
    /\ set_trace_id_call(u, trace_id)
    /\ UNCHANGED <<dvars, bvars, lvars, qvars, mvars, hvars>>

\* get_trace_id, lines 61-67, called in unit u.
get_trace_id(u) ==
    /\ u \in created
    /\ last_call' = [op |-> "get", unit |-> u, arg |-> None, ret |-> ctx[u].id,
                     by |-> ctx[u].by, before |-> ctx[u], generated |-> n_gen]
    /\ UNCHANGED <<created, ctx, inherited, installed, n_gen>>
    /\ UNCHANGED <<dvars, bvars, lvars, qvars, mvars, hvars>>

InitContext ==
    /\ created = {1}
    /\ ctx = [u \in Units |-> Unset]
    /\ inherited = [u \in Units |-> Unset]
    /\ installed = [u \in Units |-> ""]
    /\ n_gen = 0
    /\ last_call = [op |-> "none", unit |-> 0, arg |-> None, ret |-> "", by |-> 0,
                    before |-> Unset, generated |-> 0]

NextContext ==
    \/ \E u, v \in Units, kind \in {"task", "thread"} : spawn(u, v, kind)
    \/ \E u \in Units, trace_id \in GivenIds \cup {None, ""} : set_trace_id(u, trace_id)
    \/ \E u \in Units : get_trace_id(u)

\* ================================================================ Logging
\* send_event calls of a run of the logging handler.
MaxLogSends == 6
\* Rows the application writes to the store itself in a run.
MaxRows == 1

\* The level names of the records that pass the handler's level, INFO
\* (setup_logging, line 95).
LevelNames == {"INFO", "WARNING", "ERROR", "CRITICAL"}

\* str.lower()
lower ==
    "INFO" :> "info" @@ "WARNING" :> "warning" @@ "ERROR" :> "error"
           @@ "CRITICAL" :> "critical"

\* emit, line 63: the severity of the event built for a record.
severity_of(levelname) == lower[levelname]

\* Logger.callHandlers for one record logged from unit u on a logger of the
\* application or of the integrations: what the chain of emit, send_event
\* and save_event leaves, starting from `start`.
handle_record(start, u, in_loop, guard) ==
    logger_log(start, call_env(in_loop, ctx[u].id, guard), "app").st

\* The summary of a record that took the chain from `r0` to `r`.
record_summary(r0, r, u, levelname) ==
    [n |-> 1, trace |-> ctx[u].id,
     handlers |-> n_handlers, db |-> enable_db_logging,
     calls |-> r.n - r0.n,
     direct |-> r.direct - r0.direct,
     enqueued |-> Len(r.queue) - Len(r0.queue),
     built |-> r.built,
     saved |-> SubSeq(r.store, Len(r0.store) + 1, Len(r.store)),
     raised |-> r.raised, stderr |-> r.stderr,
     severity |-> IF r.built = {} THEN "" ELSE severity_of(levelname)]

\* The application logs a record at INFO or above on a logger of its own
\* from unit u: Logger.callHandlers hands it to every DevPulseHandler on the
\* root logger.  The step is the whole logging call, with what emit,
\* send_event and save_event log in turn.
log_record(u, in_loop, guard, levelname) ==
    /\ u \in created
    /\ LET r == handle_record(chain_start, u, in_loop, guard)
       IN /\ r.n <= MaxLogSends
          /\ event_queue' = r.queue
          /\ n_sent' = r.n
          /\ send_log' = r.log
          /\ send_raised' = (send_raised \/ r.raised)
          /\ store' = r.store
          /\ last_log' = record_summary(chain_start, r, u, levelname)
    /\ UNCHANGED <<websocket_url, websocket_client, connected, client_open, n_get,
                   else_conn, n_exc_conn, n_sleep, n_app_conn, transport, dropped,
                   queued_at_failure>>
    /\ UNCHANGED <<n_handlers, enable_db_logging>>
    /\ UNCHANGED <<bvars, cvars, qvars, mvars, hvars>>

\* The application calls save_event itself with an event whose traceId is
\* `trace_id`, "" when the event has none.
save_event(trace_id) ==
    /\ Cardinality({i \in 1..Len(store) : store[i].ev = 0}) < MaxRows
    /\ store' = save_event_row(store, 0, trace_id)
    /\ UNCHANGED <<n_handlers, enable_db_logging, last_log>>
    /\ UNCHANGED <<dvars, bvars, cvars, qvars, mvars, hvars>>

InitLogging ==
    /\ n_handlers = 0
    /\ enable_db_logging = FALSE
    /\ store = <<>>
    /\ last_log = [n |-> 0, trace |-> "", handlers |-> 0, db |-> FALSE, calls |-> 0,
                   enqueued |-> 0, built |-> {}, saved |-> <<>>, raised |-> FALSE,
                   stderr |-> 0, severity |-> "", direct |-> 0]

NextLogging ==
    \/ \E db \in BOOLEAN : init("ws://server", db)
    \/ set_trace_id(1, "A")
    \/ \E in_loop, guard \in BOOLEAN, levelname \in LevelNames :
          log_record(1, in_loop, guard, levelname)
    \/ \E trace_id \in GivenIds \cup {""} : save_event(trace_id)

\* ============================================================ Store queries
\* src/src/devpulse/database.py, get_events, and src/src/devpulse/web_ui.py,
\* get_trace_timeline.  The web UI is a process of its own: it reads the
\* events table that the applications' save_event calls have filled.
\* Rows of the events table.
MaxTableRows == 4
\* get_events' default limit, line 111: 100 in the source, scaled to the
\* table so that a trace can hold more rows than one query returns.
QueryLimit == 3

Systems == {"api", "database"}

Severities == {"info", "warning", "error"}

\* An event without a "timestamp" key, as populate_test_events.py and
\* debug_save_event.py save them.
NoKey == "<no key>"

\* The "timestamp" values of the saved events: datetime.utcnow().isoformat()
\* + "Z" (logging.py line 62; isoformat leaves the fraction out when the
\* microsecond is 0) and datetime.now().isoformat() (test_postgres.py line 42).
Timestamps ==
    {NoKey, "2024-01-01T00:00:00Z", "2024-01-01T00:00:01Z",
     "2024-01-01T00:00:01.500000Z", "2024-01-01T00:00:02"}

\* Python's order of str, as ranks: "" is the least string, and "." sorts
\* before "Z".
str_rank ==
    "" :> 0 @@ "2024-01-01T00:00:00Z" :> 1 @@ "2024-01-01T00:00:01.500000Z" :> 2
       @@ "2024-01-01T00:00:01Z" :> 3 @@ "2024-01-01T00:00:02" :> 4

\* datetime.fromisoformat(text.replace("Z", "+00:00")): ValueError for "", an
\* aware datetime for a text that ends in "Z", a naive one otherwise; ms is
\* the time of day in milliseconds.
fromisoformat ==
    "" :> [exc |-> "ValueError", aware |-> FALSE, ms |-> 0]
       @@ "2024-01-01T00:00:00Z" :> [exc |-> "none", aware |-> TRUE, ms |-> 0]
       @@ "2024-01-01T00:00:01Z" :> [exc |-> "none", aware |-> TRUE, ms |-> 1000]
       @@ "2024-01-01T00:00:01.500000Z" :> [exc |-> "none", aware |-> TRUE, ms |-> 1500]
       @@ "2024-01-01T00:00:02" :> [exc |-> "none", aware |-> FALSE, ms |-> 2000]

\* The payloads save_event is given: every timestamp at one severity, and
\* every severity at one timestamp.
Payloads ==
    [system : Systems, timestamp : Timestamps, severity : {"info"}]
        \cup [system : Systems, timestamp : {"2024-01-01T00:00:00Z"}, severity : Severities]

\* The rows of the table: every payload under trace "A", and one row of
\* trace "B".
Rows ==
    [trace : {"A"}, payload : Payloads]
        \cup {[trace |-> "B", payload |-> [system |-> "api",
                                           timestamp |-> "2024-01-01T00:00:00Z",
                                           severity |-> "error"]]}

\* What can happen to the query: it runs, or query.all() raises (lines
\* 172-174).
DbOutcomes == {"ok", "query raises"}

\* event.get("timestamp", default)
get_timestamp(event, default) ==
    IF event.timestamp = NoKey THEN default ELSE event.timestamp

RECURSIVE reversed(_)
reversed(seq) == IF seq = <<>> THEN <<>> ELSE Append(reversed(Tail(seq)), Head(seq))

\* get_events(trace_id=trace_id), lines 128-177: the decoded payloads of the
\* newest `limit` rows of the trace, newest first, and [] when the store
\* failed.  The column Event.timestamp is the time of the save (line 88), so
\* the rows' order by it is the order they were saved in.
get_events(tbl, trace_id, db) ==
    IF db # "ok" THEN <<>>
    ELSE LET rows == reversed(SelectSeq(tbl, LAMBDA r : r.trace = trace_id))
             taken == SubSeq(rows, 1, IF Len(rows) < QueryLimit THEN Len(rows) ELSE QueryLimit)
         IN [i \in 1..Len(taken) |-> taken[i].payload]

\* sorted(seq, key=...): Python's sort is stable; keys[i] is the key of seq[i].
sorted(seq, keys) ==
    LET n == Len(seq)
        pos(j) == 1 + Cardinality({k \in 1..n : keys[k] < keys[j] \/ (keys[k] = keys[j] /\ k < j)})
    IN [i \in 1..n |-> seq[CHOOSE j \in 1..n : pos(j) = i]]

\* Lines 370-375: the systems of the events, in the order each first appears.
RECURSIVE stage_keys(_)
stage_keys(events) ==
    IF events = <<>> THEN <<>>
    ELSE LET rest == stage_keys(SubSeq(events, 1, Len(events) - 1))
             system == events[Len(events)].system
         IN IF \E i \in 1..Len(rest) : rest[i] = system THEN rest ELSE Append(rest, system)

\* Lines 388-393: a duration is <<ms>>, and Python's None is <<>>.
\* fromisoformat raises ValueError for a text it cannot parse, and the
\* subtraction of a naive and an aware datetime raises TypeError.
stage_duration(first_event, last_event) ==
    LET start_time == fromisoformat[get_timestamp(first_event, "")]
        end_time == fromisoformat[get_timestamp(last_event, "")]
    IN IF start_time.exc # "none" \/ end_time.exc # "none" THEN <<>>
       ELSE IF start_time.aware # end_time.aware THEN <<>>
       ELSE <<end_time.ms - start_time.ms>>

\* A status that looks for a warning first: the mutation of stage_status
\* that the worst-severity property must detect.
stage_status_warning_first(system_events) ==
    IF \E i \in 1..Len(system_events) : system_events[i].severity = "warning" THEN "warning"
    ELSE IF \E i \in 1..Len(system_events) : system_events[i].severity = "error" THEN "error"
    ELSE "success"

\* Lines 396-404.
stage_status(system_events) ==
    IF \E i \in 1..Len(system_events) : system_events[i].severity = "error" THEN "error"
    ELSE IF \E i \in 1..Len(system_events) : system_events[i].severity = "warning" THEN "warning"
    ELSE "success"

\* Lines 378-414 for one system.
stage(events, system) ==
    LET mine == SelectSeq(events, LAMBDA e : e.system = system)
        system_events == sorted(mine, [i \in 1..Len(mine) |-> str_rank[get_timestamp(mine[i], "")]])
        first_event == system_events[1]
        last_event == system_events[Len(system_events)]
    IN [system |-> system,
        start_time |-> get_timestamp(first_event, None),
        end_time |-> get_timestamp(last_event, None),
        duration_ms |-> stage_duration(first_event, last_event),
        status |-> stage_status(system_events),
        event_count |-> Len(system_events),
        events |-> system_events]

\* sum(...) of line 424 over a sequence of durations that are not None.
RECURSIVE sum(_)
sum(durations) == IF durations = <<>> THEN 0 ELSE Head(durations)[1] + sum(Tail(durations))

\* A total that takes the first stage's duration alone, 0 when it is None:
\* the mutation of total_duration_ms that the sum property must detect.
total_duration_ms_first_stage(timeline) ==
    IF timeline[1].duration_ms = <<>> THEN 0 ELSE timeline[1].duration_ms[1]

\* Line 424.
total_duration_ms(timeline) ==
    LET durations == [i \in 1..Len(timeline) |-> timeline[i].duration_ms]
    IN sum(SelectSeq(durations, LAMBDA d : d # <<>>))

NoAnswer ==
    [n |-> 0, trace_id |-> "", db |-> "ok", code |-> 0, exc |-> "none", stages |-> <<>>,
     total_stages |-> 0, has_errors |-> FALSE, total_duration_ms |-> 0]

\* get_trace_timeline, lines 357-425, for a request GET
\* /api/traces/{trace_id}/timeline.  HTTPException(404) is answered with
\* status 404; sorted raises TypeError when it compares a start_time that is
\* None (line 417: the key "start_time" is there, so get's default is not
\* used), which the framework answers with status 500.  The key of a lone
\* stage is compared with nothing.
timeline_response(tbl, trace_id, db) ==
    LET events == get_events(tbl, trace_id, db)
        keys == stage_keys(events)
        timeline == [i \in 1..Len(keys) |-> stage(events, keys[i])]
        base == [NoAnswer EXCEPT !.n = 1, !.trace_id = trace_id, !.db = db]
    IN IF events = <<>> THEN [base EXCEPT !.code = 404]
       ELSE IF Len(timeline) >= 2 /\ \E i \in 1..Len(timeline) : timeline[i].start_time = None
       THEN [base EXCEPT !.code = 500, !.exc = "TypeError"]
       ELSE LET stages == sorted(timeline, [i \in 1..Len(timeline) |->
                                               IF timeline[i].start_time = None THEN 0
                                               ELSE str_rank[timeline[i].start_time]])
            IN [base EXCEPT !.code = 200,
                            !.stages = stages,
                            !.total_stages = Len(stages),
                            !.has_errors = \E i \in 1..Len(stages) : stages[i].status = "error",
                            !.total_duration_ms = total_duration_ms(stages)]

get_trace_timeline(trace_id, db) ==
    /\ answer' = timeline_response(table, trace_id, db)
    /\ UNCHANGED table
    /\ UNCHANGED <<dvars, bvars, cvars, lvars, mvars, hvars>>

\* The web UI starts on a table earlier runs have filled.
InitTimeline ==
    /\ table \in UNION {[1..n -> Rows] : n \in 0..MaxTableRows}
    /\ answer = NoAnswer

\* The other components start on an empty table.
InitQuery ==
    /\ table = <<>>
    /\ answer = NoAnswer

NextTimeline ==
    \E trace_id \in TraceIds, db \in DbOutcomes : get_trace_timeline(trace_id, db)

\* ================================================================ Middleware
\* src/src/devpulse/integrations/fastapi.py, DevPulseMiddleware.dispatch.  The
\* server runs every request in a task of its own, so a request is a unit of
\* the trace context; `await call_next(request)` is dispatch's one suspension.
\* request.headers.get("X-Trace-ID"): None without the header.
Headers == GivenIds \cup {None, ""}

NoRequest == [pc |-> "none", header |-> None, trace_id |-> "", response |-> "none",
              x_trace_id |-> None]

\* dispatch, lines 38-48, for the request that unit u handles, up to the
\* await of call_next.
dispatch(u, header) ==
    /\ u # 1
    /\ req[u].pc = "none"
    /\ set_trace_id_call(u, header)
    /\ req' = [req EXCEPT ![u] = [NoRequest EXCEPT !.pc = "call_next", !.header = header,
                                                   !.trace_id = installed'[u]]]
    /\ UNCHANGED <<dvars, bvars, lvars, qvars, hvars>>

\* dispatch, lines 48-80: call_next returns a response, to which line 52 adds
\* the header, or raises; then the exception is logged (line 57) and raised
\* again, and the server answers 500 with a response of its own.  The finally
\* clause logs the request (line 69).
dispatch_return(u, returns, guard) ==
    /\ req[u].pc = "call_next"
    /\ req' = [req EXCEPT ![u] = [@ EXCEPT !.pc = "done",
                                           !.response = IF returns THEN "returned" ELSE "raised",
                                           !.x_trace_id = IF returns THEN req[u].trace_id
                                                          ELSE None]]
    /\ LET r0 == IF returns THEN chain_start
                 ELSE [handle_record(chain_start, u, TRUE, guard)
                          EXCEPT !.built = {}, !.stderr = 0]
           r == handle_record(r0, u, TRUE, guard)
       IN /\ r.n <= MaxLogSends
          /\ event_queue' = r.queue
          /\ n_sent' = r.n
          /\ send_log' = r.log
          /\ send_raised' = (send_raised \/ r.raised)
          /\ store' = r.store
          /\ last_log' = record_summary(r0, r, u, "INFO")
    /\ UNCHANGED <<websocket_url, websocket_client, connected, client_open, n_get,
                   else_conn, n_exc_conn, n_sleep, n_app_conn, transport, dropped,
                   queued_at_failure>>
    /\ UNCHANGED <<n_handlers, enable_db_logging>>
    /\ UNCHANGED <<bvars, cvars, qvars, hvars>>

\* The server accepts requests, each in a new task, and the application may
\* have called init.
NextMiddleware ==
    \/ \E v \in Units : spawn(1, v, "task")
    \/ \E u \in Units, header \in Headers : dispatch(u, header)
    \/ \E u \in Units, returns, guard \in BOOLEAN : dispatch_return(u, returns, guard)
    \/ init("ws://server", FALSE)

\* ====================================================================== Huey
\* src/src/devpulse/integrations/huey.py, setup_huey_tracing: the task that
\* traced_task returns has execute replaced by execute_with_tracing.  A
\* worker runs an execution in a thread, a unit of the trace context with no
\* event loop; the call is synchronous, and the step between the two actions
\* is the task body, original_execute.
\* kwargs.get("trace_id"): None when the caller passed none.
TraceKwargs == GivenIds \cup {None}

\* How original_execute ends: it returns, or raises an exception that is an
\* Exception (ValueError), or one that is only a BaseException
\* (KeyboardInterrupt, SystemExit), which `except Exception` of line 192
\* does not catch.
BodyOutcomes == {"returned", "Exception", "BaseException"}

NoRun == [pc |-> "none", kwarg |-> None, trace_id |-> "", logged |-> <<>>,
          body |-> "none", caller |-> "none"]

\* logger.info and logger.error of the hooks (lines 70, 108, 144), from a
\* thread, in the context the hook's set_trace_id just installed: what the
\* logging call does to the dispatcher and to the store.
hook_logs(u, trace_id, guard, levelname) ==
    /\ LET r == logger_log(chain_start, call_env(FALSE, trace_id, guard), "app").st
       IN /\ r.n <= MaxLogSends
          /\ event_queue' = r.queue
          /\ n_sent' = r.n
          /\ send_log' = r.log
          /\ send_raised' = (send_raised \/ r.raised)
          /\ store' = r.store
          /\ last_log' = [record_summary(chain_start, r, u, levelname)
                             EXCEPT !.trace = trace_id]
    /\ UNCHANGED <<websocket_url, websocket_client, connected, client_open, n_get,
                   else_conn, n_exc_conn, n_sleep, n_app_conn, transport, dropped,
                   queued_at_failure>>
    /\ UNCHANGED <<n_handlers, enable_db_logging>>

\* execute_with_tracing, lines 176-184, in unit u: _pre_execute_hook (lines
\* 63-80) takes trace_id out of kwargs, installs it or a new one, and logs
\* task_start; then the body starts.
execute_with_tracing(u, kwarg, guard) ==
    /\ u # 1
    /\ run[u].pc = "none"
    /\ set_trace_id_call(u, kwarg)
    /\ hook_logs(u, installed'[u], guard, "INFO")
    /\ run' = [run EXCEPT ![u] = [NoRun EXCEPT !.pc = "body", !.kwarg = kwarg,
                                               !.trace_id = installed'[u],
                                               !.logged = <<"task_start">>]]
    /\ UNCHANGED <<bvars, qvars, mvars>>

\* Line 190: the body returned, _post_execute_hook (lines 99-116) installs
\* trace_id again and logs task_success, and the result is returned.
execute_returned(u, guard) ==
    /\ set_trace_id_call(u, run[u].trace_id)
    /\ hook_logs(u, run[u].trace_id, guard, "INFO")
    /\ run' = [run EXCEPT ![u] = [@ EXCEPT !.pc = "done", !.body = "returned",
                                           !.logged = Append(@, "task_success"),
                                           !.caller = "returned"]]

\* Lines 192-195: the body raised an Exception, _error_hook (lines 135-152)
\* installs trace_id again and logs task_failure, and `raise` raises the
\* exception again.
execute_raised(u, guard) ==
    /\ set_trace_id_call(u, run[u].trace_id)
    /\ hook_logs(u, run[u].trace_id, guard, "ERROR")
    /\ run' = [run EXCEPT ![u] = [@ EXCEPT !.pc = "done", !.body = "Exception",
                                           !.logged = Append(@, "task_failure"),
                                           !.caller = "Exception"]]

\* The body raised an exception that is not an Exception: no clause of the
\* try statement catches it, and it leaves execute_with_tracing as it is.
execute_propagates(u) ==
    /\ run' = [run EXCEPT ![u] = [@ EXCEPT !.pc = "done", !.body = "BaseException",
                                           !.caller = "BaseException"]]
    /\ UNCHANGED <<dvars, cvars, lvars>>

\* execute_with_tracing, lines 186-195, in unit u: the body ends.
execute_body_ends(u, outcome, guard) ==
    /\ run[u].pc = "body"
    /\ CASE outcome = "returned" -> execute_returned(u, guard)
         [] outcome = "Exception" -> execute_raised(u, guard)
         [] outcome = "BaseException" -> execute_propagates(u)
    /\ UNCHANGED <<bvars, qvars, mvars>>

\* The workers of the consumer run task executions, each in a new thread,
\* and the application may have called init.
NextHuey ==
    \/ \E v \in Units : spawn(1, v, "thread")
    \/ \E u \in Units, kwarg \in TraceKwargs, guard \in BOOLEAN :
           execute_with_tracing(u, kwarg, guard)
    \/ \E u \in Units, outcome \in BodyOutcomes, guard \in BOOLEAN :
           execute_body_ends(u, outcome, guard)
    \/ init("ws://server", FALSE)

InitHuey == run = [u \in Units |-> NoRun]

InitBroadcaster ==
    /\ clients = <<>>
    /\ hpc = [s \in Sinks |-> "new"]
    /\ hpath = [s \in Sinks |-> <<>>]
    /\ htrace = [s \in Sinks |-> ""]
    /\ joined_after = [s \in Sinks |-> {}]
    /\ alive = [s \in Sinks |-> FALSE]
    /\ close_code = [s \in Sinks |-> 0]
    /\ hexc = [s \in Sinks |-> "none"]
    /\ bc = [s \in Sinks |-> NoBroadcast]
    /\ n_bcast = 0
    /\ received = EmptyBag
    /\ last_done = summary(NoBroadcast, "none", {}, <<>>)

NextBroadcaster ==
    \/ \E s \in Sinks, path \in Paths : ws_connect(s, path)
    \/ \E s \in Sinks : sink_close(s)
    \/ \E s \in Sinks : handler_exit(s)
    \/ \E s \in Sinks, trace_id \in TraceIds \cup {""} : ws_message(s, trace_id)
    \/ \E s \in Sinks : bcast_resume(s)

\* ------------------------------------------------------------ specifications
InitDispatcher ==
    /\ websocket_url = ""
    /\ websocket_client = 0
    /\ connected = FALSE
    /\ client_open = FALSE
    /\ event_queue = <<>>
    /\ n_get = 0
    /\ else_conn = {}
    /\ n_exc_conn = 0
    /\ n_sleep = 0
    /\ n_app_conn = 0
    /\ n_sent = 0
    /\ send_log = "none"
    /\ send_raised = FALSE
    /\ transport = <<>>
    /\ dropped = {}
    /\ queued_at_failure = {}

NextDispatcher ==
    \/ \E url \in Urls : init(url, FALSE)
    \/ \E in_loop, guard \in BOOLEAN, trace_id \in {"", "A"} :
          send_event(in_loop, trace_id, guard)
    \/ app_connect
    \/ \E ok \in BOOLEAN : app_connect_done(ok)
    \/ loop_get(AllOutcomes)
    \/ \E event \in else_conn, ok \in BOOLEAN : loop_else_connected(event, ok, AllOutcomes)
    \/ \E ok \in BOOLEAN : loop_exc_connected(ok)
    \/ loop_wake
    \/ transport_close

InitMiddleware == req = [u \in Units |-> NoRequest]

Init ==
    /\ InitDispatcher /\ InitBroadcaster /\ InitContext /\ InitLogging
    /\ InitQuery /\ InitMiddleware /\ InitHuey

SpecDispatcher == Init /\ [][NextDispatcher]_vars

SpecBroadcaster == Init /\ [][NextBroadcaster]_vars

\* The broadcaster on an event loop that runs every task that is ready: a
\* broadcast_event suspended in a send is resumed (weak fairness of each
\* handler's resumption).  Nothing makes a client connect, close or send.
SpecBroadcasterFair ==
    /\ Init
    /\ [][NextBroadcaster]_vars
    /\ \A s \in Sinks : WF_vars(bcast_resume(s))

SpecContext == Init /\ [][NextContext]_vars

SpecLogging == Init /\ [][NextLogging]_vars

SpecMiddleware == Init /\ [][NextMiddleware]_vars

SpecHuey == Init /\ [][NextHuey]_vars

\* The web UI's start: the other components as they start, and a table that
\* earlier runs have filled.
InitStored ==
    /\ InitDispatcher /\ InitBroadcaster /\ InitContext /\ InitLogging
    /\ InitTimeline /\ InitMiddleware /\ InitHuey

SpecTimeline == InitStored /\ [][NextTimeline]_vars

\* The dispatcher with a transport whose connect and send operations succeed:
\* no connection is closed, no connect and no send raises, and init is given
\* a URL.  A task then exists only once _connected is true, so lines 56-61
\* and 65-71 are never reached and their continuations are left out.  The
\* event loop runs every task that is ready (weak fairness of the tasks'
\* steps); nothing makes the application call connect_websocket, send_event
\* or init.
NextHealthy ==
    \/ init("ws://server", FALSE)
    \/ \E in_loop, guard \in BOOLEAN, trace_id \in {"", "A"} :
          send_event(in_loop, trace_id, guard)
    \/ app_connect
    \/ app_connect_done(TRUE)
    \/ loop_get({"ok"})

SpecHealthy ==
    /\ Init
    /\ [][NextHealthy]_vars
    /\ WF_vars(app_connect_done(TRUE))
    /\ WF_vars(loop_get({"ok"}))

\* The dispatcher with one transport failure and a working server: the
\* connection is closed once, before any send has failed; every connect
\* succeeds, init is given a URL and no send raises but for the closed
\* connection.
first_transport_close == dropped = {} /\ transport_close

NextRecovery ==
    \/ init("ws://server", FALSE)
    \/ \E in_loop, guard \in BOOLEAN, trace_id \in {"", "A"} :
          send_event(in_loop, trace_id, guard)
    \/ app_connect
    \/ app_connect_done(TRUE)
    \/ loop_get({"ok", "ConnectionClosed"})
    \/ \E event \in else_conn : loop_else_connected(event, TRUE, {"ok"})
    \/ loop_exc_connected(TRUE)
    \/ first_transport_close

SpecRecovery == Init /\ [][NextRecovery]_vars

\* The dispatcher with a server that may refuse connections and close them,
\* on an event loop that runs every task that is ready: a connect in flight
\* ends, a delivery task whose get() can return runs, and a sleeping task
\* wakes.  init is given a URL; nothing makes the application call
\* connect_websocket or send_event.
NextRetry ==
    \/ init("ws://server", FALSE)
    \/ \E in_loop, guard \in BOOLEAN, trace_id \in {"", "A"} :
          send_event(in_loop, trace_id, guard)
    \/ app_connect
    \/ \E ok \in BOOLEAN : app_connect_done(ok)
    \/ loop_get(AllOutcomes)
    \/ \E event \in else_conn, ok \in BOOLEAN : loop_else_connected(event, ok, AllOutcomes)
    \/ \E ok \in BOOLEAN : loop_exc_connected(ok)
    \/ loop_wake
    \/ transport_close

SpecRetry ==
    /\ Init
    /\ [][NextRetry]_vars
    /\ WF_vars(\E ok \in BOOLEAN : app_connect_done(ok))
    /\ WF_vars(loop_get(AllOutcomes))
    /\ WF_vars(\E event \in 1..MaxSends, ok \in BOOLEAN :
                  loop_else_connected(event, ok, AllOutcomes))
    /\ WF_vars(\E ok \in BOOLEAN : loop_exc_connected(ok))
    /\ WF_vars(loop_wake)

\* -------------------------------------------------------------------- claims
records_sent == {transport[i][1] : i \in 1..Len(transport)}

\* C1: records sent over one connection (while it stays up) reach the
\* transport in the order send_event enqueued them.
C1_FifoWhileConnected ==
    \A i, j \in 1..Len(transport) :
        (i < j /\ transport[i][2] = transport[j][2]) => transport[i][1] < transport[j][1]

\* Two tasks consume the queue and three records went over one connection.
C1_Witness ==
    /\ n_loops >= 2
    /\ \E c \in 1..MaxConns :
          Cardinality({i \in 1..Len(transport) : transport[i][2] = c}) >= MaxSends

\* C2: no dequeued record is skipped: a record whose send met a closed
\* transport, or that was dequeued while disconnected, is not given up.
C2_NoRecordSkipped == \A d \in dropped : d[2] \notin {"closed", "noconn"}

\* C3: the queue's length stays within a fixed capacity, whatever the enqueue
\* rate: it never holds all the records of a run of MaxSends calls.
C3_QueueBounded == Len(event_queue) < MaxSends

\* C4: at most one process_event_queue task exists.
C4_SingleDeliveryLoop == n_loops <= 1

\* C5: with a URL configured and a transport that works, every record given
\* to send_event is eventually sent.
C5_EventuallySent ==
    \A e \in 1..MaxSends : (websocket_url # "" /\ n_sent >= e) ~> (e \in records_sent)

\* C6: after a send met a closed transport and the reconnects succeeded, the
\* records that were queued at the failure are not given up and reach the
\* transport in enqueue order.
C6_RecoveryInOrder ==
    /\ \A d \in dropped : d[1] \notin queued_at_failure
    /\ \A i, j \in 1..Len(transport) :
          (i < j /\ {transport[i][1], transport[j][1]} \subseteq queued_at_failure)
              => transport[i][1] < transport[j][1]

\* C7: send_event can be called in every dispatcher state, no send_event
\* call raises to its caller, and a call leaves the queued records as they
\* were and adds each new record once or not at all.
C7_SendEventNeverRaises ==
    /\ [](n_sent < MaxSends =>
            ENABLED (\E in_loop \in BOOLEAN : send_event(in_loop, "", TRUE)))
    /\ [][n_sent' # n_sent =>
            /\ ~send_raised'
            /\ Len(event_queue') >= Len(event_queue)
            /\ SubSeq(event_queue', 1, Len(event_queue)) = event_queue
            /\ \A i \in (Len(event_queue) + 1)..Len(event_queue') :
                  /\ event_queue'[i] \in (n_sent + 1)..n_sent'
                  /\ \A j \in (Len(event_queue) + 1)..Len(event_queue') :
                        i # j => event_queue'[i] # event_queue'[j]]_vars

\* C8: a broadcast_event call for an event with a traceId sends the event to
\* every sink that was registered for that traceId when the call began.
C8_BroadcastReachesEverySink ==
    (last_done.n > 0 /\ last_done.trace # "") => last_done.snapshot \subseteq last_done.visited

\* C9: when a send of a broadcast failed, the failed sink is unregistered at
\* the end of the broadcast, every other sink registered for the traceId was
\* sent the event, and the other traceIds' registrations are as they were.
C9_FailedSinkIsolated ==
    last_done.failed # {} =>
        /\ last_done.failed \cap last_done.after = {}
        /\ (last_done.snapshot \ last_done.failed) \subseteq last_done.delivered
        /\ last_done.others_same

\* C10: a broadcast that register and unregister interleave with ends without
\* raising, and has sent to the sink set as it was before or after them.
C10_BroadcastSeesWholeSet ==
    last_done.n > 0 =>
        /\ last_done.exc = "none"
        /\ last_done.visited \in {last_done.snapshot, last_done.final_set}


\* C11: the registry never maps a traceId to an empty sink set, whatever
\* register, unregister and the removal of failed sinks have done.
C11_NoEmptyEntry == \A k \in DOMAIN clients : clients[k] # {}

\* The last sink of a traceId was removed by a broadcast, and the last sink
\* of a traceId by its handler's unregister.
C11_Witness ==
    /\ last_done.failed # {} /\ last_done.exc = "none"
    /\ last_done.trace \notin DOMAIN clients
    /\ \E s \in Sinks : /\ hpc[s] = "done" /\ htrace[s] # "" /\ hexc[s] = "none"
                         /\ s \notin last_done.failed
                         /\ htrace[s] \notin DOMAIN clients

\* C12: registering a (traceId, sink) pair that is registered leaves the
\* registry as it is, and a sink is sent an event of its traceId once.
C12_RegisterTwiceIsOnce ==
    /\ \A t \in DOMAIN clients : \A s \in clients[t] :
          /\ register(clients, s, t) = clients
          /\ register(register(clients, s, t), s, t) = clients
    /\ \A s \in Sinks, t \in TraceIds :
          register(register(clients, s, t), s, t) = register(clients, s, t)
    /\ \A x \in BagToSet(received) : CopiesIn(x, received) = 1

\* Two sinks are registered for one traceId and both were sent an event of it.
C12_Witness ==
    \E t \in DOMAIN clients, e \in 1..MaxBroadcasts :
        /\ Cardinality(clients[t]) >= 2
        /\ \A s \in clients[t] : BagIn(<<s, t, e>>, received)

\* C13: a sink is never sent an event whose broadcast had ended when the sink
\* registered, and a broadcast of an event whose traceId has no entry in the
\* registry sends to nobody and leaves the registry as it is.
C13_NoReplay ==
    /\ \A x \in BagToSet(received) : x[3] \notin joined_after[x[1]]
    /\ (last_done.n > 0 /\ last_done.absent) =>
          /\ last_done.visited = {} /\ last_done.delivered = {}
          /\ last_done.exc = "none"
          /\ last_done.registry_same
          /\ \A x \in BagToSet(received) : x[3] # last_done.n

\* A sink registered for a traceId after an event of that traceId had been
\* sent to another sink, and the last event had a traceId nobody is
\* registered for while other sinks are registered.
C13_Witness ==
    /\ \E s \in Sinks, r \in Sinks, e \in 1..MaxBroadcasts :
          /\ e \in joined_after[s] /\ htrace[s] # "" /\ alive[s]
          /\ BagIn(<<r, htrace[s], e>>, received)
    /\ last_done.n > 0 /\ last_done.absent /\ last_done.trace # ""
    /\ DOMAIN clients # {}

\* Whether a request path names no trace identifier: "/ws/", "/ws//...".
empty_trace_id(path) == Len(path) >= 1 /\ path[1] = "ws" /\ (Len(path) < 2 \/ path[2] = "")

\* C14: a connection whose path carries an empty trace identifier is closed
\* with code 1008 and is never in the registry.
C14_EmptyTraceIdRejected ==
    \A s \in Sinks : (hpath[s] # <<>> /\ empty_trace_id(hpath[s])) =>
        /\ close_code[s] = 1008
        /\ hpc[s] = "done"
        /\ \A k \in DOMAIN clients : s \notin clients[k]

\* A connection asked for "/ws//A" while another one is registered.
C14_Witness ==
    \E s \in Sinks : /\ hpath[s] = <<"ws", "", "A">> /\ close_code[s] = 1008
                     /\ DOMAIN clients # {}

\* C15: an event without a traceId gets nowhere: emit hands nothing to
\* send_event or save_event for a record logged without a trace id,
\* broadcast_event sends such an event to no sink, and no row of the store
\* has an empty trace id.
C15_NoTraceIdRejected ==
    /\ (last_log.n = 1 /\ last_log.trace = "") =>
          (last_log.calls = 0 /\ last_log.enqueued = 0 /\ last_log.saved = <<>>)
    /\ (last_done.n > 0 /\ last_done.trace = "") => last_done.visited = {}
    /\ \A i \in 1..Len(store) : store[i].trace # ""

C17_SetThenGet ==
    /\ last_call.op = "set" =>
          /\ last_call.arg \in GivenIds => last_call.ret = last_call.arg
          /\ last_call.arg = None =>
                /\ last_call.ret \notin GivenIds \cup {"", None}
                /\ \A k \in 1..last_call.generated :
                      generate_trace_id(k) # last_call.ret
          /\ ctx[last_call.unit].id = last_call.ret
    /\ last_call.op = "get" =>
          /\ last_call.ret = installed[last_call.unit]
          /\ ctx[last_call.unit] = last_call.before

\* A get_trace_id returned the second generated identifier while another
\* unit holds a given one.
C17_Witness ==
    /\ last_call.op = "get" /\ last_call.ret = generate_trace_id(2)
    /\ last_call.by = last_call.unit
    /\ \E v \in created : ctx[v].id \in GivenIds

\* C18: get_trace_id in a context where no trace id was set returns None.
C18_UnsetIsNone ==
    (last_call.op = "get" /\ last_call.before.by = 0) => last_call.ret = None

\* C19: for a log record handled by one DevPulseHandler while a trace id is
\* set, send_event is called once, one event is queued, and nothing raises.
C19_OneEventPerRecord ==
    (last_log.n = 1 /\ last_log.trace # "" /\ last_log.handlers = 1) =>
        (last_log.calls = 1 /\ last_log.enqueued = 1 /\ ~last_log.raised)

\* C20: every event emit built for a log record is handed to save_event once
\* when enable_db_logging is true, in the order of the send_event returns,
\* and none is when it is false.
C20_StoredOncePerEvent ==
    last_log.n = 1 =>
        IF last_log.db
        THEN \A e \in last_log.built :
                Cardinality({i \in 1..Len(last_log.saved) : last_log.saved[i].ev = e}) = 1
        ELSE last_log.saved = <<>>

\* C21: on a fair event loop, an event with a traceId that a handler
\* received and began to broadcast is eventually sent to every sink that
\* was registered for the traceId then, unless the sink's connection closes
\* or the sink is unregistered.
C21_EverySinkEventuallyReceives ==
    \A s \in Sinks : \A e \in 1..MaxBroadcasts :
        (\E h \in Sinks : bc[h].active /\ bc[h].ev = e /\ s \in bc[h].snapshot)
            ~> \/ \E t \in TraceIds : BagIn(<<s, t, e>>, received)
               \/ ~alive[s]
               \/ s \notin clients_get(clients, htrace[s])

\* The rows the table holds for a trace, oldest first.
trace_rows(trace_id) == SelectSeq(table, LAMBDA r : r.trace = trace_id)

\* What fromisoformat makes of a stage's start_time or end_time.
parsed(value) == fromisoformat[IF value = None THEN "" ELSE value]

\* C22: a timeline request is answered 404 when the table holds no row of the
\* trace, and with a timeline when it holds one.
C22_NotFoundIffNoEvents ==
    answer.n > 0 => answer.code = IF trace_rows(answer.trace_id) = <<>> THEN 404 ELSE 200

\* C23: in a timeline, a stage's status is error when an event of the stage
\* has severity error, else warning when one has severity warning, else
\* success.
C23_StageStatus ==
    answer.code = 200 =>
        \A i \in 1..Len(answer.stages) :
            LET st == answer.stages[i]
                severities == {st.events[k].severity : k \in 1..Len(st.events)}
            IN st.status = IF "error" \in severities THEN "error"
                           ELSE IF "warning" \in severities THEN "warning"
                           ELSE "success"

\* A timeline with a stage that holds an error and a warning, and a stage
\* that holds a warning and no error.
C23_Witness ==
    /\ answer.code = 200
    /\ \E i, j \in 1..Len(answer.stages) :
          /\ \E k, l \in 1..Len(answer.stages[i].events) :
                /\ answer.stages[i].events[k].severity = "error"
                /\ answer.stages[i].events[l].severity = "warning"
          /\ answer.stages[i].status = "error"
          /\ answer.stages[j].status = "warning"

\* C24: a stage's duration_ms is its end time minus its start time, in
\* milliseconds, when both timestamps parse, and None when one does not.
C24_StageDuration ==
    answer.code = 200 =>
        \A i \in 1..Len(answer.stages) :
            LET st == answer.stages[i]
                start_time == parsed(st.start_time)
                end_time == parsed(st.end_time)
            IN st.duration_ms = IF start_time.exc = "none" /\ end_time.exc = "none"
                                THEN <<end_time.ms - start_time.ms>>
                                ELSE <<>>

\* C25: the request ends without an exception of the sort, and the stages of
\* its timeline are in ascending order of start time, stages of equal start
\* time in the order their systems first appear in the events, and stages
\* whose start time does not parse after the others.
C25_StagesSorted ==
    answer.n > 0 =>
        /\ answer.exc = "none"
        /\ answer.code = 200 =>
              \A i, j \in 1..Len(answer.stages) :
                  i < j =>
                      LET a == parsed(answer.stages[i].start_time)
                          b == parsed(answer.stages[j].start_time)
                          keys == stage_keys(get_events(table, answer.trace_id, answer.db))
                          pos(system) == CHOOSE p \in 1..Len(keys) : keys[p] = system
                      IN /\ a.exc # "none" => b.exc # "none"
                         /\ (a.exc = "none" /\ b.exc = "none") => a.ms <= b.ms
                         /\ (a.exc = "none" /\ b.exc = "none" /\ a.ms = b.ms)
                               => pos(answer.stages[i].system) < pos(answer.stages[j].system)

\* C26: total_duration_ms is the sum of the stages' durations that are not
\* None, a None adding nothing, and 0 when every duration is None.
C26_TotalDuration ==
    answer.code = 200 =>
        answer.total_duration_ms =
            sum([i \in 1..Len(answer.stages) |->
                    IF answer.stages[i].duration_ms = <<>> THEN <<0>>
                    ELSE answer.stages[i].duration_ms])

\* A timeline of two stages: the first has no duration, its two timestamps
\* being a naive and an aware one, and the second has duration 0.
C26_Witness ==
    /\ answer.code = 200
    /\ Len(answer.stages) = 2
    /\ answer.stages[1].event_count = 2
    /\ answer.stages[1].duration_ms = <<>>
    /\ answer.stages[2].duration_ms = <<0>>
    /\ answer.total_duration_ms = 0

\* C27: has_errors is true exactly when a stage of the timeline has status
\* error, and exactly when an event of the trace has severity error.
C27_HasErrors ==
    answer.code = 200 =>
        /\ answer.has_errors = (\E i \in 1..Len(answer.stages) : answer.stages[i].status = "error")
        /\ answer.has_errors =
              (\E k \in 1..Len(trace_rows(answer.trace_id)) :
                  trace_rows(answer.trace_id)[k].payload.severity = "error")

\* C28: for a request that dispatch handles, the trace id in the request's
\* context is the X-Trace-ID header's value when the request has one, and
\* else an identifier generated for this request alone; the response's
\* X-Trace-ID header is that identifier, whatever other requests do.
C28_MiddlewareTraceId ==
    \A u \in Units :
        req[u].pc # "none" =>
            /\ ctx[u] = [id |-> req[u].trace_id, by |-> u]
            /\ req[u].header \notin {None, ""} => req[u].trace_id = req[u].header
            /\ req[u].header \in {None, ""} =>
                  /\ \E n \in 1..n_gen : req[u].trace_id = generate_trace_id(n)
                  /\ \A v \in Units \ {u} : req[v].trace_id # req[u].trace_id
            /\ req[u].pc = "done" => req[u].x_trace_id = req[u].trace_id

\* C29: a request whose query failed is answered with an error, neither with
\* a timeline nor with 404.
C29_StoreFailureSurfaced ==
    (answer.n > 0 /\ answer.db # "ok") => answer.code \notin {200, 404}

\* C30: the event emit builds for a log record has a severity among debug,
\* info, warning and error: a record of another level gets info.
C30_SeverityInEnum ==
    last_log.built # {} =>
        last_log.severity \in {"debug", "info", "warning", "error"}

\* C31: a step of the delivery loop in which a send raised, ConnectionClosed
\* or another exception, leaves _connected false.
C31_SendFailureDisconnects ==
    [][\A d \in dropped' \ dropped : d[2] \in {"closed", "error"} => ~connected']_vars

\* C32: once a connect attempt has failed, the dispatcher being disconnected
\* with no attempt in flight, a further attempt is made (or the dispatcher
\* is connected) without a record being enqueued.  A record given up at
\* line 61 or after ConnectionClosed tells that an attempt was made, and
\* _connected false with none in flight that the last one failed.
C32_ConnectRetried ==
    (/\ \E d \in dropped : d[2] \in {"closed", "noconn"}
     /\ ~connected
     /\ n_connecting = 0)
        ~> (n_connecting > 0 \/ connected)

\* C33: in each stage of a timeline the events whose timestamps parse are in
\* ascending order of time, and the events of one timestamp are in the order
\* get_events returned them.
C33_EventsChronological ==
    answer.code = 200 =>
        \A i \in 1..Len(answer.stages) :
            LET st == answer.stages[i]
                events == get_events(table, answer.trace_id, answer.db)
            IN /\ \A k, l \in 1..Len(st.events) :
                      LET a == fromisoformat[get_timestamp(st.events[k], "")]
                          b == fromisoformat[get_timestamp(st.events[l], "")]
                      IN (k < l /\ a.exc = "none" /\ b.exc = "none") => a.ms <= b.ms
               /\ \A ts \in Timestamps :
                      SelectSeq(st.events, LAMBDA e : e.timestamp = ts)
                          = SelectSeq(events, LAMBDA e : e.system = st.system /\ e.timestamp = ts)

\* C34: a timeline holds every row the table has for the trace once: each
\* system of the rows has one stage, the stage's events are the payloads of
\* the system's rows, and the event_count values add up to the number of
\* rows.
C34_EveryEventOnce ==
    answer.code = 200 =>
        LET rows == trace_rows(answer.trace_id)
            of_system(system) == SelectSeq(rows, LAMBDA r : r.payload.system = system)
        IN /\ \A system \in Systems :
                 Cardinality({i \in 1..Len(answer.stages) : answer.stages[i].system = system})
                     = IF of_system(system) = <<>> THEN 0 ELSE 1
           /\ \A i \in 1..Len(answer.stages) :
                 LET st == answer.stages[i]
                 IN /\ st.event_count = Len(of_system(st.system))
                    /\ st.event_count = Len(st.events)
                    /\ \A p \in Payloads :
                          Len(SelectSeq(st.events, LAMBDA e : e = p))
                              = Len(SelectSeq(of_system(st.system), LAMBDA r : r.payload = p))
           /\ sum([i \in 1..Len(answer.stages) |-> <<answer.stages[i].event_count>>]) = Len(rows)

\* C38: a stage's duration_ms that is not None is 0 or more, and so is
\* total_duration_ms.
C38_DurationNonNegative ==
    answer.code = 200 =>
        /\ \A i \in 1..Len(answer.stages) :
              answer.stages[i].duration_ms # <<>> => answer.stages[i].duration_ms[1] >= 0
        /\ answer.total_duration_ms >= 0

\* C36: an unregister of a sink that is not registered under the traceId
\* does not raise: no handler's finally clause and no broadcast's removal of
\* failed sinks ends with KeyError.
C36_UnregisterAbsentIsNoop ==
    /\ \A s \in Sinks : hexc[s] # "KeyError"
    /\ last_done.exc # "KeyError"

\* C37: a sink is sent events of the traceId it is registered under only.
C37_NoCrossTraceDelivery ==
    \A s \in Sinks : \A t \in TraceIds : \A e \in 1..MaxBroadcasts :
        BagIn(<<s, t, e>>, received) => t = htrace[s]

\* Sinks are registered under both traceIds at once, and an event of each
\* traceId was sent to a sink.
C37_Witness ==
    /\ \E s, r \in Sinks : /\ s \in clients_get(clients, "A")
                           /\ r \in clients_get(clients, "B")
    /\ \E s \in Sinks, e \in 1..MaxBroadcasts : BagIn(<<s, "A", e>>, received)
    /\ \E s \in Sinks, e \in 1..MaxBroadcasts : BagIn(<<s, "B", e>>, received)

\* C35: every execution of a task that setup_huey_tracing wrapped logs
\* task_start before the body runs and, after the body, exactly one of
\* task_success (the body returned) and task_failure (the body raised); the
\* caller gets the body's result, or its exception raised again.
C35_TaskEventsLogged ==
    \A u \in Units :
        /\ run[u].pc = "body" => run[u].logged = <<"task_start">>
        /\ run[u].pc = "done" =>
               /\ run[u].logged = <<"task_start",
                                    IF run[u].body = "returned" THEN "task_success"
                                    ELSE "task_failure">>
               /\ run[u].caller = run[u].body

\* C39: after any number of init calls, a log record produced while a trace
\* id is set is handed to send_event once: the handlers' emit calls
\* send_event for the record itself exactly one time.
C39_InitTwiceNoMultiplication ==
    (last_log.n = 1 /\ last_log.trace # "" /\ last_log.handlers >= 1) =>
        last_log.direct = 1

=============================================================================
